---- MODULE Spec2Model ----
(***************************************************************************)
(* Model of the HirePro ingestion pipeline (src/scraper.py): the retrying  *)
(* fetcher make_request, page-count discovery, extract_job_details, the    *)
(* per-source run scrape_and_save_jobs and the coordinator                 *)
(* run_all_scrapers, over an abstract committed store and one SQLAlchemy   *)
(* session (autocommit=False, autoflush=False).                            *)
(***************************************************************************)
EXTENDS Integers, Sequences, FiniteSets, TLC

VARIABLES
    tables,           \* committed rows of regular_jobs / freshers_jobs / internship_jobs
    db,               \* the scraper session's open transaction: pending delete and adds
    pc,               \* position in run_all_scrapers / scrape_and_save_jobs
    source,           \* index into sources of the source being run
    tries,            \* backoff: attempts made by the current make_request call
    late,             \* backoff: elapsed >= max_time at the start of the current try
    response,         \* outcome of the latest GET attempt
    last_page,        \* scrape_and_save_jobs: last_page
    page,             \* scrape_and_save_jobs: loop variable
    successful_jobs,  \* scrape_and_save_jobs: successful_jobs
    outcome,          \* per source: how its run ended, as run_all_scrapers saw it
    attempted,        \* the sources run_all_scrapers has started, in order
    extracted,        \* per source: the records this run built from the cards it read
    failure,          \* per source: the step and page at which its run failed
    anchors,          \* discovery check: pagination anchor texts
    discovered,       \* discovery check: the computed last_page
    card,             \* extraction check: the card fragment
    details,          \* extraction check: what extract_job_details gave
    job_cards,        \* scrape_and_save_jobs: job_cards of the page being processed
    prior,            \* the committed rows when run_all_scrapers was called
    gets,             \* GET attempts issued so far by a source run called directly
    request,          \* the /api/scrape request session's open transaction
    called,           \* a direct call of scrape_and_save_jobs and its source_type
    seen,             \* reader: what the latest GET /jobs query returned, and when
    salary_raw,       \* salary check: the text given to clean_salary
    cleaned,          \* salary check: clean_salary(salary_raw)
    recleaned         \* salary check: clean_salary(cleaned)

vars == <<tables, db, pc, source, tries, late, response, last_page, page,
          successful_jobs, outcome, attempted, extracted, failure,
          anchors, discovered, card, details, job_cards, gets, prior, called,
          request,           seen,           salary_raw, cleaned, recleaned>>

runVars == <<tables, db, pc, source, tries, late, response, last_page, page,
             successful_jobs, outcome, attempted, extracted, failure, job_cards,
             gets, prior, called, request>>
pageVars == <<anchors, discovered>>
cardVars == <<card, details>>
salaryVars == <<salary_raw, cleaned, recleaned>>
otherVars == <<prior, called, request, seen, pageVars, cardVars, salaryVars>>

(***************************************************************************)
(* Bounds.                                                                 *)
(***************************************************************************)
MaxPages == 2        \* largest page number a listing's pagination shows
MaxAnchors == 2      \* discovery check: anchors per list
MaxTextLen == 2      \* discovery check: characters per anchor text
MaxTags == 3         \* extraction check: tag elements per card
MaxSalaryLen == 3    \* salary check: characters per salary text

(***************************************************************************)
(* Texts are sequences of characters.  "amp" stands for the entity         *)
(* reference &amp;, "rupee" for U+20B9, "sup2" for U+00B2 (a character     *)
(* str.isdigit accepts and int() rejects).                                 *)
(***************************************************************************)
Max(S) == CHOOSE x \in S : \A y \in S : y <= x

SeqsUpTo(S, n) == UNION {[1..k -> S] : k \in 0..n}

RECURSIVE strip_left(_)
strip_left(t) == IF t # <<>> /\ Head(t) = " " THEN strip_left(Tail(t)) ELSE t

RECURSIVE strip_right(_)
strip_right(t) ==
    IF t # <<>> /\ t[Len(t)] = " " THEN strip_right(SubSeq(t, 1, Len(t) - 1)) ELSE t

strip(t) == strip_right(strip_left(t))

DecimalDigits == {"0", "1", "2", "3", "4", "5", "6", "7", "8", "9"}

DigitValue(c) ==
    CASE c = "0" -> 0 [] c = "1" -> 1 [] c = "2" -> 2 [] c = "3" -> 3 [] c = "4" -> 4
      [] c = "5" -> 5 [] c = "6" -> 6 [] c = "7" -> 7 [] c = "8" -> 8 [] c = "9" -> 9

DigitText(n) == <<CHOOSE c \in DecimalDigits : DigitValue(c) = n>>

\* str.isdigit: non-empty and every character has the Unicode digit property.
isdigit(t) == t # <<>> /\ \A k \in 1..Len(t) : t[k] \in DecimalDigits \cup {"sup2"}

\* int(): accepts decimal digits only; anything else is a ValueError.
int_ok(t) == t # <<>> /\ \A k \in 1..Len(t) : t[k] \in DecimalDigits

RECURSIVE int(_)
int(t) == IF t = <<>> THEN 0 ELSE 10 * int(SubSeq(t, 1, Len(t) - 1)) + DigitValue(t[Len(t)])

(***************************************************************************)
(* Page-count discovery (scrape_and_save_jobs, the last_page expression).  *)
(***************************************************************************)
\* [int(a.text.strip()) for a in pagination if a.text.strip().isdigit()]
digit_texts(as) == {k \in 1..Len(as) : isdigit(strip(as[k]))}

\* max(... or [1]); int() raising ValueError ends the computation.
compute_last_page(as) ==
    IF \E k \in digit_texts(as) : ~int_ok(strip(as[k]))
    THEN [ok |-> FALSE, value |-> 0]
    ELSE IF digit_texts(as) = {}
         THEN [ok |-> TRUE, value |-> 1]
         ELSE [ok |-> TRUE, value |-> Max({int(strip(as[k])) : k \in digit_texts(as)})]

(***************************************************************************)
(* Record extraction.  A card fragment says, for each selector, whether    *)
(* an element matches and what it holds.  Strings are sequences; "" is     *)
(* <<>>, None is <<"None">>, a URL is <<host, path>> (host "" when the     *)
(* reference is relative, "[" when it has an unclosed IPv6 bracket).       *)
(***************************************************************************)
EmptyString == <<>>
None == <<"None">>

\* html.unescape
unescape(t) == [k \in 1..Len(t) |-> IF t[k] = "amp" THEN "&" ELSE t[k]]

clean_text(t) == IF t # <<>> THEN unescape(strip(t)) ELSE EmptyString

RECURSIVE replace(_, _, _)
replace(t, old, new) ==
    IF t = <<>> THEN <<>>
    ELSE (IF Head(t) = old THEN new ELSE <<Head(t)>>) \o replace(Tail(t), old, new)

INR == <<"I", "N", "R">>

\* Mutant: the literal "?" is left alone.
clean_salary_glyph_only(salary) ==
    IF salary = <<>> THEN EmptyString
    ELSE strip(replace(replace(salary, "rupee", INR), "rupee", INR))

clean_salary(salary) ==
    IF salary = <<>> THEN EmptyString
    ELSE strip(replace(replace(replace(salary, "rupee", INR), "rupee", INR), "?", INR))

\* urllib.parse.urljoin raises ValueError on an invalid netloc.
urljoin_ok(url) == url[1] # "["

urljoin(base, url) ==
    IF url[1] # "" THEN url
    ELSE IF url[2] = "" THEN base
    ELSE <<base[1], url[2]>>

RECURSIVE join(_)
join(ts) ==
    IF ts = <<>> THEN <<>>
    ELSE IF Len(ts) = 1 THEN ts[1]
    ELSE ts[1] \o <<",", " ">> \o join(Tail(ts))

\* select_one(sel).text if select_one(sel) else ""
text_or_empty(el) == IF el.present THEN clean_text(el.text) ELSE EmptyString

\* urljoin(base_url, el[attr]) if el and attr in el.attrs else ""
url_or_empty(base_url, el) ==
    IF el.present /\ el.has_attr THEN urljoin(base_url, el.attr) ELSE EmptyString

\* The exception the body of extract_job_details raises, if any.
extract_exception(job_element) ==
    IF \/ job_element.apply.present /\ job_element.apply.has_attr
          /\ ~urljoin_ok(job_element.apply.attr)
       \/ job_element.img.present /\ job_element.img.has_attr
          /\ ~urljoin_ok(job_element.img.attr)
    THEN "ValueError"
    ELSE "none"

\* Mutant: the two tags read in the other order.
job_fields_tags_swapped(job_element, base_url) ==
    [job_title |-> text_or_empty(job_element.title),
     company_location |-> text_or_empty(job_element.company_location),
     salary |-> clean_salary(text_or_empty(job_element.salary)),
     job_type |-> IF Len(job_element.tags) > 0
                  THEN clean_text(job_element.tags[1]) ELSE EmptyString,
     posted |-> text_or_empty(job_element.posted),
     skills |-> join([k \in 1..Len(job_element.skills) |->
                        clean_text(job_element.skills[k])]),
     eligible_years |-> IF Len(job_element.tags) > 1
                        THEN clean_text(job_element.tags[2]) ELSE EmptyString,
     apply_url |-> url_or_empty(base_url, job_element.apply),
     company_logo |-> url_or_empty(base_url, job_element.img)]

job_fields(job_element, base_url) ==
    [job_title |-> text_or_empty(job_element.title),
     company_location |-> text_or_empty(job_element.company_location),
     salary |-> clean_salary(text_or_empty(job_element.salary)),
     job_type |-> IF Len(job_element.tags) > 1
                  THEN clean_text(job_element.tags[2]) ELSE EmptyString,
     posted |-> text_or_empty(job_element.posted),
     skills |-> join([k \in 1..Len(job_element.skills) |->
                        clean_text(job_element.skills[k])]),
     eligible_years |-> IF Len(job_element.tags) > 0
                        THEN clean_text(job_element.tags[1]) ELSE EmptyString,
     apply_url |-> url_or_empty(base_url, job_element.apply),
     company_logo |-> url_or_empty(base_url, job_element.img)]

NoFields ==
    [job_title |-> None, company_location |-> None, salary |-> None, job_type |-> None,
     posted |-> None, skills |-> None, eligible_years |-> None, apply_url |-> None,
     company_logo |-> None]

\* kind "record": the dict returned; "None": the except clause's return None;
\* "raise": an exception the except clause does not name leaves the function.
extract_job_details(job_element, base_url) ==
    LET e == extract_exception(job_element) IN
    IF e = "none" THEN [kind |-> "record", fields |-> job_fields(job_element, base_url)]
    ELSE IF e \in {"AttributeError", "KeyError"} THEN [kind |-> "None", fields |-> NoFields]
    ELSE [kind |-> "raise", fields |-> NoFields]

(***************************************************************************)
(* The store and the session.                                              *)
(***************************************************************************)
sources == <<"Regular", "Freshers", "Internships">>
Sources == {sources[k] : k \in 1..Len(sources)}

\* Mutant: every source type mapped to the same model.
get_job_model_one_table(source_type) ==
    IF source_type \in Sources THEN "Regular" ELSE "None"

\* Mutant: an unknown identifier falls back to the regular model.
get_job_model_default(source_type) ==
    IF source_type \in Sources THEN source_type ELSE "Regular"

\* get_job_model: model_map.get(source_type), None for an unknown identifier.
get_job_model(source_type) == IF source_type \in Sources THEN source_type ELSE "None"

url_map(source_type) ==
    CASE source_type = "Regular" -> <<"www.talentd.in", "/jobs?page=">>
      [] source_type = "Freshers" -> <<"www.talentd.in", "/jobs/freshers?page=">>
      [] source_type = "Internships" -> <<"www.talentd.in", "/jobs/internships?page=">>

\* A row: JobModel(**job_details) built by run `run` from card `k` of page `p`.
\* Run 0 is any earlier run, run 1 the one in progress.
Row(s, run, p, k) == [table |-> s, run |-> run, page |-> p, card |-> k]

NoTransaction == [deleted |-> FALSE, added |-> {}]

\* No /api/scrape request is being served: its session holds no row lock.
NoRequest == [open |-> FALSE, locked |-> {}]

\* Mutant: the delete is not issued.
query_delete_skipped(session) == session

\* db.query(JobModel).delete(): a DELETE of every row, inside the transaction.
query_delete(session) == [session EXCEPT !.deleted = TRUE]

\* db.add(new_job)
add(session, row) == [session EXCEPT !.added = @ \cup {row}]

\* Mutant: a commit replaces the table by the rows added in the transaction.
commit_overwrites(rows, session) == session.added

\* Mutant: a commit leaves the deleted rows in place.
commit_ignores_delete(rows, session) == rows \cup session.added

\* db.commit(): what the table holds once the transaction is committed.
commit(rows, session) == (IF session.deleted THEN {} ELSE rows) \cup session.added

\* Mutant: the except clause leaves the transaction open.
rollback_keeps(session) == session

\* db.rollback()
rollback(session) == NoTransaction

(***************************************************************************)
(* make_request under backoff.on_exception(expo, ..., max_tries, max_time) *)
(***************************************************************************)
max_tries == 3

Statuses == {200, 304, 404, 503}
NetworkErrors == {"ConnectionError", "Timeout"}
Attempts ==
    [error : {"none"}, status : Statuses] \cup [error : NetworkErrors, status : {0}]
NoResponse == [error |-> "none", status |-> 0]

\* Mutant: only a 5xx status raises.
raise_for_status_5xx(status) == 500 <= status /\ status < 600

\* response.raise_for_status(): HTTPError for a 4xx or 5xx status.
raise_for_status(status) == 400 <= status /\ status < 600

\* One pass through make_request's body raises a RequestException.
request_raises(a) == a.error # "none" \/ raise_for_status(a.status)

\* Mutant: one try too many before giving up.
giveup_off_by_one(n, elapsed_over) == n = max_tries + 1 \/ elapsed_over

\* backoff: max_tries_exceeded or max_time_exceeded.
giveup(n, elapsed_over) == n = max_tries \/ elapsed_over

(***************************************************************************)
(* Inputs of a run: card fragments and listing pages.                      *)
(***************************************************************************)
Element(t) == [present |-> TRUE, text |-> t]
NoElement == [present |-> FALSE, text |-> <<>>]
Link(u) == [present |-> TRUE, has_attr |-> TRUE, attr |-> u]
NoLink == [present |-> FALSE, has_attr |-> FALSE, attr |-> <<"", "">>]

FullCard ==
    [title |-> Element(<<"Q", "A">>), company_location |-> Element(<<"X">>),
     salary |-> Element(<<"rupee", "5">>), posted |-> Element(<<"1", "d">>),
     tags |-> <<<<"2">>, <<"F", "T">>>>, skills |-> <<<<"C">>, <<"S">>>>,
     apply |-> Link(<<"", "/apply/123">>), img |-> Link(<<"cdn.example", "/l.png">>)]

EmptyCard ==
    [title |-> NoElement, company_location |-> NoElement, salary |-> NoElement,
     posted |-> NoElement, tags |-> <<>>, skills |-> <<>>, apply |-> NoLink,
     img |-> NoLink]

BadLinkCard == [FullCard EXCEPT !.apply = Link(<<"[", "">>)]

\* The cards found on one listing page.
FullPage == <<FullCard, BadLinkCard, EmptyCard>>
PageSamples == {<<>>, FullPage}

\* The pagination anchors of a first page: none, those of an n-page listing,
\* a lone "0", a lone superscript two.
Pagination(n) == [k \in 1..(n + 1) |-> IF k <= n THEN DigitText(k) ELSE <<"N", "e">>]
AnchorSamples ==
    {<<>>, <<<<"0">>>>, <<<<"sup2">>>>} \cup {Pagination(n) : n \in 2..MaxPages}

PriorContents ==
    {[s \in Sources |-> {}], [s \in Sources |-> {Row(s, 0, 1, 1)}]}

(***************************************************************************)
(* run_all_scrapers and scrape_and_save_jobs.                              *)
(***************************************************************************)
\* Calls made by run_all_scrapers' loop, not by another caller.
NoCall == [direct |-> FALSE, source_type |-> ""]

\* source_type: the loop's source, or the argument of a direct call.
current == IF called.direct THEN called.source_type ELSE sources[source]

\* requests.get was called once more.  The count is kept for a source run
\* called on its own; the runs inside run_all_scrapers take the same steps.
after_get(n) == IF called.direct THEN n + 1 ELSE n

\* JobModel = get_job_model(source_type): the table the run deletes from and adds to.
JobModel == get_job_model(current)

NoFailure == [step |-> "none", page |-> 0]

\* Mutant: range(1, last_page), the last page left out.
loop_pc_exclusive(p, last) == IF p < last THEN "fetch" ELSE "finish"

\* range(1, last_page + 1): the loop body runs for p, or the loop is over.
loop_pc(p, last) == IF p <= last THEN "fetch" ELSE "finish"

\* Mutant: the next page is requested right after the commit.
after_commit_no_sleep == "fetch"

\* time.sleep(2) is the statement after the page's db.commit().
after_commit_pc == "sleep"

\* for source in sources: the next iteration, or the end of run_all_scrapers.
next_source_pc(k) == IF k < Len(sources) THEN "source" ELSE "returned"

\* Mutant: the handler re-raises.
handler_reraises(k) == "raised"

\* Mutant: the handler leaves the loop (break for continue).
handler_breaks(k) == "returned"

\* run_all_scrapers' handlers (except ScrapingError / except Exception): continue.
handler_pc(k) == next_source_pc(k)

\* Mutant: the first card that fails ends the page's loop (break for continue).
added_cards_until_error(cards, base_url) ==
    {k \in 1..Len(cards) :
        \A i \in 1..k : extract_job_details(cards[i], base_url).kind = "record"}

\* The cards of a page that end in db.add: extraction gave a dict and nothing raised.
added_cards(cards, base_url) ==
    {k \in 1..Len(cards) : extract_job_details(cards[k], base_url).kind = "record"}

RECURSIVE add_all(_, _)
add_all(session, rows) ==
    IF rows = {} THEN session
    ELSE LET r == CHOOSE x \in rows : TRUE IN add_all(add(session, r), rows \ {r})

Undiscovered == [ok |-> FALSE, value |-> -1]
Unextracted == [kind |-> "unset", fields |-> NoFields]

IdlePageVars == anchors = <<>> /\ discovered = Undiscovered
IdleCardVars == card = EmptyCard /\ details = Unextracted

Unseen == [rows |-> {}, at |-> "never", source |-> 0, page |-> 0]
IdleReader == seen = Unseen

Uncleaned == <<"unset">>
IdleSalaryVars == salary_raw = <<>> /\ cleaned = Uncleaned /\ recleaned = Uncleaned

Init ==
    /\ tables \in PriorContents
    /\ db = NoTransaction
    /\ pc = "start"
    /\ source = 0
    /\ tries = 0
    /\ late = FALSE
    /\ response = NoResponse
    /\ last_page = 0
    /\ page = 0
    /\ successful_jobs = 0
    /\ outcome = [s \in Sources |-> "none"]
    /\ attempted = <<>>
    /\ extracted = [s \in Sources |-> {}]
    /\ failure = [s \in Sources |-> NoFailure]
    /\ job_cards = <<>>
    /\ gets = 0
    /\ prior = tables
    /\ request = NoRequest
    /\ called = NoCall
    /\ IdleReader
    /\ IdlePageVars
    /\ IdleCardVars
    /\ IdleSalaryVars

\* ensure_tables_exist() returns.
EnsureTables ==
    /\ pc = "start"
    /\ pc' = "source"
    /\ source' = 1
    /\ UNCHANGED <<tables, db, tries, late, response, last_page, page, successful_jobs,
                   outcome, attempted, extracted, failure, job_cards, gets, otherVars>>

\* ensure_tables_exist() raises (inspect(engine) cannot reach the database):
\* the call is outside every try of run_all_scrapers.
EnsureTablesFails ==
    /\ pc = "start"
    /\ pc' = "raised"
    /\ UNCHANGED <<tables, db, source, tries, late, response, last_page, page,
                   successful_jobs, outcome, attempted, extracted, failure,
                   job_cards, gets, otherVars>>

\* scrape_and_save_jobs(source): db = next(get_db()), JobModel found.
StartSource ==
    /\ pc = "source"
    /\ JobModel # "None"
    /\ attempted' = Append(attempted, current)
    /\ db' = NoTransaction
    /\ gets' = 0
    /\ pc' = "delete"
    /\ UNCHANGED <<tables, source, tries, late, response, last_page, page,
                   successful_jobs, outcome, extracted, failure, job_cards, otherVars>>

\* except Exception in scrape_and_save_jobs is entered from step `step`.
Raise(step) ==
    /\ pc' = "except"
    /\ failure' = [failure EXCEPT ![current] = [step |-> step, page |-> page]]

\* db.query(JobModel).delete()
DeleteExisting ==
    /\ pc = "delete"
    /\ JobModel \notin request.locked
    /\ db' = query_delete(db)
    /\ pc' = "commit_delete"
    /\ UNCHANGED <<tables, source, tries, late, response, last_page, page,
                   successful_jobs, outcome, attempted, extracted, failure,
                   job_cards, gets, otherVars>>

\* db.query(JobModel).delete() raises SQLAlchemyError.
DeleteFails ==
    /\ pc = "delete"
    /\ Raise("delete")
    /\ UNCHANGED <<tables, db, source, tries, late, response, last_page, page,
                   successful_jobs, outcome, attempted, extracted, job_cards, gets, otherVars>>

\* db.commit() after the delete; then make_request(base_url + "1") starts.
CommitDelete ==
    /\ pc = "commit_delete"
    /\ tables' = [tables EXCEPT ![JobModel] = commit(@, db)]
    /\ db' = NoTransaction
    /\ pc' = "first"
    /\ tries' = 0
    /\ late' = FALSE
    /\ UNCHANGED <<source, response, last_page, page, successful_jobs, outcome,
                   attempted, extracted, failure, job_cards, gets, otherVars>>

\* db.commit() raises SQLAlchemyError (after the delete or after a page).
CommitFails ==
    /\ pc \in {"commit_delete", "commit"}
    /\ Raise(pc)
    /\ UNCHANGED <<tables, db, source, tries, late, response, last_page, page,
                   successful_jobs, outcome, attempted, extracted, job_cards, gets, otherVars>>

\* One GET of make_request that returns the response.
RequestReturns ==
    /\ pc \in {"first", "fetch"}
    /\ \E a \in Attempts :
          /\ ~request_raises(a)
          /\ response' = a
    /\ tries' = tries + 1
    /\ gets' = after_get(gets)
    /\ late' = FALSE
    /\ pc' = IF pc = "first" THEN "discover" ELSE "cards"
    /\ UNCHANGED <<tables, db, source, last_page, page, successful_jobs, outcome,
                   attempted, extracted, failure, job_cards, otherVars>>

\* One GET that raises, backoff sleeps and tries again; the time the try and the
\* sleep took may bring elapsed to max_time.
RequestRetries ==
    /\ pc \in {"first", "fetch"}
    /\ ~giveup(tries + 1, late)
    /\ \E a \in Attempts :
          /\ request_raises(a)
          /\ response' = a
    /\ tries' = tries + 1
    /\ gets' = after_get(gets)
    /\ \E slow \in BOOLEAN : late' = (late \/ slow)
    /\ UNCHANGED <<tables, db, pc, source, last_page, page, successful_jobs, outcome,
                   attempted, extracted, failure, job_cards, otherVars>>

\* One GET that raises and backoff gives up: the exception leaves make_request.
RequestGivesUp ==
    /\ pc \in {"first", "fetch"}
    /\ giveup(tries + 1, late)
    /\ \E a \in Attempts :
          /\ request_raises(a)
          /\ response' = a
    /\ tries' = tries + 1
    /\ gets' = after_get(gets)
    /\ Raise(pc)
    /\ UNCHANGED <<tables, db, source, late, last_page, page, successful_jobs, outcome,
                   attempted, extracted, job_cards, otherVars>>

\* The first page is parsed and last_page computed; the page loop starts.
Discover ==
    /\ pc = "discover"
    /\ \E as \in AnchorSamples :
          /\ compute_last_page(as).ok
          /\ last_page' = compute_last_page(as).value
          /\ pc' = loop_pc(1, compute_last_page(as).value)
    /\ page' = 1
    /\ successful_jobs' = 0
    /\ tries' = 0
    /\ response' = NoResponse
    /\ UNCHANGED <<tables, db, source, late, outcome, attempted, extracted, failure,
                   job_cards, gets, otherVars>>

\* int(a.text.strip()) raises ValueError.
DiscoverFails ==
    /\ pc = "discover"
    /\ \E as \in AnchorSamples : ~compute_last_page(as).ok
    /\ Raise("discover")
    /\ response' = NoResponse
    /\ UNCHANGED <<tables, db, source, tries, late, last_page, page, successful_jobs,
                   outcome, attempted, extracted, job_cards, gets, otherVars>>

\* for job in job_cards: extract, build the row, db.add.
ProcessCards ==
    /\ pc = "cards"
    /\ \E cards \in PageSamples :
          LET ks == added_cards(cards, url_map(current))
              rows == {Row(JobModel, 1, page, k) : k \in ks}
          IN /\ db' = add_all(db, rows)
             /\ successful_jobs' = successful_jobs + Cardinality(ks)
             /\ extracted' = [extracted EXCEPT ![current] = @ \cup rows]
             /\ job_cards' = cards
    /\ pc' = "commit"
    /\ response' = NoResponse
    /\ UNCHANGED <<tables, source, tries, late, last_page, page, outcome, attempted,
                   failure, gets, otherVars>>

\* db.commit() for the page.
CommitPage ==
    /\ pc = "commit"
    /\ tables' = [tables EXCEPT ![JobModel] = commit(@, db)]
    /\ db' = NoTransaction
    /\ pc' = after_commit_pc
    /\ UNCHANGED <<source, tries, late, response, last_page, page, successful_jobs,
                   outcome, attempted, extracted, failure, job_cards, gets, otherVars>>

\* time.sleep(2), then the next iteration of the page loop.
Sleep ==
    /\ pc = "sleep"
    /\ page' = page + 1
    /\ pc' = loop_pc(page + 1, last_page)
    /\ tries' = 0
    /\ UNCHANGED <<tables, db, source, late, response, last_page, successful_jobs,
                   outcome, attempted, extracted, failure, job_cards, gets, otherVars>>

\* The loop is over: log, finally db.close(), return; run_all_scrapers sleeps
\* and goes on.
FinishSource ==
    /\ pc = "finish"
    /\ outcome' = [outcome EXCEPT ![current] = "ok"]
    /\ db' = NoTransaction
    /\ gets' = 0
    /\ pc' = next_source_pc(source)
    /\ source' = source + 1
    /\ last_page' = 0
    /\ page' = 0
    /\ successful_jobs' = 0
    /\ tries' = 0
    /\ UNCHANGED <<tables, late, response, attempted, extracted, failure,
                   job_cards, otherVars>>

\* except Exception: db.rollback(), raise ScrapingError, finally db.close();
\* run_all_scrapers' handler takes it.
FailSource ==
    /\ pc = "except"
    /\ db' = rollback(db)
    /\ outcome' = [outcome EXCEPT ![current] = "failed"]
    /\ gets' = 0
    /\ pc' = handler_pc(source)
    /\ source' = source + 1
    /\ last_page' = 0
    /\ page' = 0
    /\ successful_jobs' = 0
    /\ tries' = 0
    /\ late' = FALSE
    /\ response' = NoResponse
    /\ UNCHANGED <<tables, attempted, extracted, failure, job_cards, otherVars>>

Next ==
    \/ EnsureTables
    \/ EnsureTablesFails
    \/ StartSource
    \/ DeleteExisting
    \/ DeleteFails
    \/ CommitDelete
    \/ CommitFails
    \/ RequestReturns
    \/ RequestRetries
    \/ RequestGivesUp
    \/ Discover
    \/ DiscoverFails
    \/ ProcessCards
    \/ CommitPage
    \/ Sleep
    \/ FinishSource
    \/ FailSource

Spec == Init /\ [][Next]_vars

(***************************************************************************)
(* scrape_and_save_jobs called on its own with any identifier.             *)
(***************************************************************************)
\* The three source types, a key of api.py's model_map, and the empty string.
Identifiers == Sources \cup {"regular", ""}

InitCall ==
    /\ tables \in PriorContents
    /\ db = NoTransaction
    /\ pc = "source"
    /\ source = Len(sources)
    /\ tries = 0
    /\ late = FALSE
    /\ response = NoResponse
    /\ last_page = 0
    /\ page = 0
    /\ successful_jobs = 0
    /\ outcome = [s \in Sources |-> "none"]
    /\ attempted = <<>>
    /\ extracted = [s \in Sources |-> {}]
    /\ failure = [s \in Sources |-> NoFailure]
    /\ job_cards = <<>>
    /\ gets = 0
    /\ prior = tables
    /\ request = NoRequest
    /\ called \in [direct : {TRUE}, source_type : Identifiers]
    /\ IdleReader
    /\ IdlePageVars
    /\ IdleCardVars
    /\ IdleSalaryVars

\* if not JobModel: raise ValueError, before the try block.
InvalidSource ==
    /\ pc = "source"
    /\ JobModel = "None"
    /\ db' = NoTransaction
    /\ pc' = "ValueError"
    /\ UNCHANGED <<tables, source, tries, late, response, last_page, page,
                   successful_jobs, outcome, attempted, extracted, failure,
                   job_cards, gets, otherVars>>

NextCall ==
    \/ StartSource
    \/ InvalidSource
    \/ DeleteExisting
    \/ DeleteFails
    \/ CommitDelete
    \/ CommitFails
    \/ RequestReturns
    \/ RequestRetries
    \/ RequestGivesUp
    \/ Discover
    \/ DiscoverFails
    \/ ProcessCards
    \/ CommitPage
    \/ Sleep
    \/ FinishSource
    \/ FailSource

SpecCall == InitCall /\ [][NextCall]_vars

(***************************************************************************)
(* GET /api/scrape: trigger_scrape deletes the three tables on the request *)
(* session, does not commit, and calls run_all_scrapers in the same        *)
(* thread.  The tables are InnoDB tables (MySQL's default engine): a       *)
(* DELETE locks every row it deletes until its transaction ends.           *)
(***************************************************************************)
InitTrigger ==
    /\ tables \in PriorContents
    /\ db = NoTransaction
    /\ pc = "trigger"
    /\ source = 0
    /\ tries = 0
    /\ late = FALSE
    /\ response = NoResponse
    /\ last_page = 0
    /\ page = 0
    /\ successful_jobs = 0
    /\ outcome = [s \in Sources |-> "none"]
    /\ attempted = <<>>
    /\ extracted = [s \in Sources |-> {}]
    /\ failure = [s \in Sources |-> NoFailure]
    /\ job_cards = <<>>
    /\ gets = 0
    /\ prior = tables
    /\ request = NoRequest
    /\ called = NoCall
    /\ IdleReader
    /\ IdlePageVars
    /\ IdleCardVars
    /\ IdleSalaryVars

\* The rows a session's uncommitted DELETE of every table has locked.
delete_locks(committed) == {s \in Sources : committed[s] # {}}

\* db.query(RegularJob).delete(), ...(FreshersJob)..., ...(InternshipJob)...,
\* then run_all_scrapers() is called.
TriggerDeletes ==
    /\ pc = "trigger"
    /\ request' = [open |-> TRUE, locked |-> delete_locks(tables)]
    /\ pc' = "start"
    /\ UNCHANGED <<tables, db, source, tries, late, response, last_page, page,
                   successful_jobs, outcome, attempted, extracted, failure,
                   job_cards, gets, prior, called, seen, pageVars, cardVars,
                   salaryVars>>

\* The scraper session's DELETE needs row locks the request's transaction holds.
DeleteWaits ==
    /\ pc = "delete"
    /\ JobModel \in request.locked
    /\ pc' = "lock_wait"
    /\ UNCHANGED <<tables, db, source, tries, late, response, last_page, page,
                   successful_jobs, outcome, attempted, extracted, failure,
                   job_cards, gets, otherVars>>

\* innodb_lock_wait_timeout passes: the DELETE raises OperationalError 1205.
LockWaitTimeout ==
    /\ pc = "lock_wait"
    /\ Raise("delete")
    /\ UNCHANGED <<tables, db, source, tries, late, response, last_page, page,
                   successful_jobs, outcome, attempted, extracted, job_cards, gets,
                   otherVars>>

\* run_all_scrapers returned or raised: trigger_scrape answers (200, or 500
\* from its except clause) and get_db closes the request session, which
\* rolls its uncommitted deletes back.
TriggerResponds ==
    /\ pc \in {"returned", "raised"}
    /\ request' = NoRequest
    /\ pc' = IF pc = "returned" THEN "200" ELSE "500"
    /\ UNCHANGED <<tables, db, source, tries, late, response, last_page, page,
                   successful_jobs, outcome, attempted, extracted, failure,
                   job_cards, gets, prior, called, seen, pageVars, cardVars,
                   salaryVars>>

NextTrigger ==
    \/ TriggerDeletes
    \/ Next
    \/ DeleteWaits
    \/ LockWaitTimeout
    \/ TriggerResponds

SpecTrigger == InitTrigger /\ [][NextTrigger]_vars

(***************************************************************************)
(* Either call, with progress: the program is one thread and every GET,    *)
(* every persistence call and every sleep returns or fails in finite time, *)
(* so a step that can be taken is taken.                                   *)
(***************************************************************************)
InitAnyCall == Init \/ InitCall

NextAnyCall == Next \/ InvalidSource

FairSpec == InitAnyCall /\ [][NextAnyCall]_vars /\ WF_vars(NextAnyCall)

(***************************************************************************)
(* Properties of the run (specification Spec).                             *)
(***************************************************************************)
Fresh(rows) == \A r \in rows : r.run = 1
InRun == source \in 1..Len(sources)
FetchSteps == {"first", "fetch"}
Returned == {"discover", "cards"}

\* C1: when scrape_and_save_jobs has completed without raising, the source's
\* collection holds exactly the rows this run built from the pages it read, and
\* no row an earlier run persisted, whatever the collection held before.
C1_FullReplace ==
    \A s \in Sources :
        outcome[s] = "ok" => tables[s] = extracted[s] /\ Fresh(tables[s])

\* A completed run that saved rows, over a store that held an earlier run's
\* rows (every collection starts with the same kind of prior content, and the
\* Internships run has not started).
C1_Witness ==
    /\ outcome["Regular"] = "ok"
    /\ tables["Regular"] # {}
    /\ outcome["Internships"] = "none"
    /\ tables["Internships"] = {Row("Internships", 0, 1, 1)}

\* C2: every step of a source's run, successful or failed, leaves the two other
\* sources' collections as they were, and the session only ever stages rows of
\* the run's own source; outside a source run no collection changes.
C2_OtherSourcesUntouched ==
    /\ [](\A r \in db.added : InRun /\ r.table = current)
    /\ [][\A s \in Sources : (InRun /\ s = current) \/ tables'[s] = tables[s]]_vars

\* The Freshers run has committed rows of its own while Regular holds what its
\* run left and Internships still holds the earlier run's row.
C2_Witness ==
    /\ InRun
    /\ current = "Freshers"
    /\ pc = "sleep"
    /\ tables["Freshers"] # {}
    /\ outcome["Regular"] = "failed"
    /\ tables["Regular"] = {Row("Regular", 0, 1, 1)}
    /\ tables["Internships"] = {Row("Internships", 0, 1, 1)}

\* C3: when the fetch of page k > 1 fails after backoff gave up, the collection
\* holds exactly the rows of pages 1..k-1 of this run, nothing of page k or
\* later, the run ends failed (ScrapingError), and run_all_scrapers does not
\* raise.
C3_PageFetchFailure ==
    \A s \in Sources :
        (failure[s].step = "fetch" /\ failure[s].page > 1) =>
            /\ tables[s] = {r \in extracted[s] : r.page < failure[s].page}
            /\ \A r \in tables[s] : r.run = 1 /\ r.page \in 1..(failure[s].page - 1)
            /\ pc # "raised"
            /\ outcome[s] # "ok"
            /\ outcome[s] = "none" => (pc = "except" /\ InRun /\ current = s)

\* Page 2 could not be fetched: page 1's rows are committed and the run failed.
C3_Witness ==
    /\ failure["Regular"] = [step |-> "fetch", page |-> 2]
    /\ outcome["Regular"] = "failed"
    /\ tables["Regular"] = {Row("Regular", 1, 1, 1), Row("Regular", 1, 1, 3)}

\* A source's own fetches and commits all succeeded.
OwnStepsSucceeded(s) == failure[s].step \in {"none", "discover"}

\* C4: when run_all_scrapers has returned and some source's run failed, all
\* three sources were run, and every source whose own fetches and commits
\* succeeded holds exactly the rows newly extracted for it.
C4_FailureIsolation ==
    (pc = "returned" /\ \E f \in Sources : outcome[f] = "failed") =>
        /\ attempted = sources
        /\ \A s \in Sources : outcome[s] # "none"
        /\ \A s \in Sources :
              OwnStepsSucceeded(s) => tables[s] = extracted[s] /\ Fresh(tables[s])

\* Freshers failed on every fetch; Regular and Internships were replaced.
C4_Witness ==
    /\ pc = "returned"
    /\ failure["Freshers"].step = "first"
    /\ outcome = [s \in Sources |-> IF s = "Freshers" THEN "failed" ELSE "ok"]
    /\ tables["Regular"] # {} /\ Fresh(tables["Regular"])
    /\ tables["Internships"] # {} /\ Fresh(tables["Internships"])

\* The sources started so far are the first ones of the list, in order, and each
\* but the last has finished.
Sequenced ==
    /\ Len(attempted) <= Len(sources)
    /\ \A k \in 1..Len(attempted) :
          /\ attempted[k] = sources[k]
          /\ k < Len(attempted) => outcome[attempted[k]] # "none"

\* C5 as stated: run_all_scrapers never raises, whatever fails, and returns
\* only after running the three sources once each, in order, one at a time.
C5_NeverRaises ==
    /\ pc # "raised"
    /\ Sequenced
    /\ pc = "returned" => attempted = sources /\ \A s \in Sources : outcome[s] # "none"

\* C5 amended: no failure inside a source run leaves run_all_scrapers, which
\* returns only after running the three sources once each, in order, one at a
\* time; it raises only when ensure_tables_exist raised, before any source.
C5_RaisesOnlyBeforeSources ==
    /\ pc = "raised" => attempted = <<>> /\ \A s \in Sources : outcome[s] = "none"
    /\ Sequenced
    /\ pc = "returned" => attempted = sources /\ \A s \in Sources : outcome[s] # "none"

\* run_all_scrapers returned although all three runs failed, at different steps.
C5_Witness ==
    /\ pc = "returned"
    /\ failure["Regular"].step = "commit_delete"
    /\ failure["Freshers"].step = "first"
    /\ failure["Internships"].step = "commit"
    /\ \A s \in Sources : outcome[s] = "failed"

\* C6: a make_request call makes at most 3 GET attempts; an attempt that does
\* not raise ends the call at once with its response; when the call fails, the
\* exception is that of its last attempt.
C6_AtMostThreeTries ==
    /\ [](tries <= 3)
    /\ [](pc \in Returned => ~request_raises(response))
    /\ []((pc = "except" /\ failure[current].step \in FetchSteps) =>
            request_raises(response))
    /\ [][(pc \in FetchSteps /\ tries' = tries + 1 /\ ~request_raises(response'))
            => pc' \in Returned]_vars

\* Two attempts failed and the third returned the page.
C6_Witness == pc = "cards" /\ tries = 3 /\ response.status = 200

\* C7 as stated: an attempt with a non-2xx status or a network error is never
\* what make_request returns, and the call fails only when no attempt is left.
C7_Non2xxRetried ==
    /\ pc \in Returned => response.error = "none" /\ response.status \in 200..299
    /\ (pc = "except" /\ failure[current].step \in FetchSteps) => tries = max_tries

\* C7 amended: an attempt with a 4xx or 5xx status or a network error is never
\* what make_request returns, and the call fails only when no attempt is left
\* or the time budget max_time is used up; other statuses (a 3xx that requests
\* does not follow) are returned as the page.
C7_ErrorStatusRetried ==
    /\ pc \in Returned =>
          response.error = "none" /\ response.status \notin 400..599
    /\ (pc = "except" /\ failure[current].step \in FetchSteps) =>
          /\ response.error # "none" \/ response.status \in 400..599
          /\ tries = max_tries \/ late

\* Three attempts of a page fetch ended in 503 and the call failed.
C7_Witness ==
    /\ pc = "except"
    /\ failure[current].step = "fetch"
    /\ tries = 3
    /\ response.status = 503


(***************************************************************************)
(* Page-count discovery on its own: every list of anchor texts within the  *)
(* bounds, and the list "1", "2", "Next", "3".                             *)
(***************************************************************************)
AnchorChars == {"0", "1", "2", "3", " ", "N", "sup2"}
AnchorTexts == SeqsUpTo(AnchorChars, MaxTextLen)
NextExample == <<<<"1">>, <<"2">>, <<"N", "e", "x", "t">>, <<"3">>>>

IdleRunVars ==
    /\ tables = [s \in Sources |-> {}]
    /\ db = NoTransaction
    /\ pc = "idle"
    /\ source = 0
    /\ tries = 0
    /\ late = FALSE
    /\ response = NoResponse
    /\ last_page = 0
    /\ page = 0
    /\ successful_jobs = 0
    /\ outcome = [s \in Sources |-> "none"]
    /\ attempted = <<>>
    /\ extracted = [s \in Sources |-> {}]
    /\ failure = [s \in Sources |-> NoFailure]
    /\ job_cards = <<>>
    /\ gets = 0
    /\ prior = tables
    /\ request = NoRequest
    /\ called = NoCall
    /\ IdleReader

InitPages ==
    /\ anchors \in SeqsUpTo(AnchorTexts, MaxAnchors) \cup {NextExample}
    /\ discovered = Undiscovered
    /\ IdleRunVars
    /\ IdleCardVars
    /\ IdleSalaryVars

ComputeLastPage ==
    /\ discovered = Undiscovered
    /\ discovered' = compute_last_page(anchors)
    /\ UNCHANGED <<anchors, runVars, seen, cardVars, salaryVars>>

NextPages == ComputeLastPage

SpecPages == InitPages /\ [][NextPages]_vars

(***************************************************************************)
(* extract_job_details on its own: every card fragment built from the      *)
(* element samples below.                                                  *)
(***************************************************************************)
TitleElements == {NoElement, Element(<<" ", "Q", "amp", "A">>)}
CompanyElements == {NoElement, Element(<<"X", " ">>)}
SalaryElements ==
    {NoElement, Element(<<"rupee", "5">>), Element(<<"?", "5">>), Element(<<" ", "5">>)}
PostedElements == {NoElement, Element(<<"1", "d">>)}
TagLists == SeqsUpTo({<<"2">>, <<" ", "F">>}, MaxTags)
SkillLists == {<<>>, <<<<"C">>>>, <<<<"C">>, <<"S", " ">>>>}
NoAttribute == [present |-> TRUE, has_attr |-> FALSE, attr |-> <<"", "">>]
ApplyLinks ==
    {NoLink, NoAttribute, Link(<<"", "/apply/123">>), Link(<<"", "">>),
     Link(<<"[", "">>)}
ImageLinks ==
    {NoLink, NoAttribute, Link(<<"cdn.example", "/l.png">>), Link(<<"[", "">>)}

Cards ==
    [title : TitleElements, company_location : CompanyElements, salary : SalaryElements,
     posted : PostedElements, tags : TagLists, skills : SkillLists, apply : ApplyLinks,
     img : ImageLinks]

InitExtract ==
    /\ card \in Cards
    /\ details = Unextracted
    /\ IdleRunVars
    /\ IdlePageVars
    /\ IdleSalaryVars

Extract ==
    /\ details = Unextracted
    /\ details' = extract_job_details(card, url_map("Regular"))
    /\ UNCHANGED <<card, runVars, seen, pageVars, salaryVars>>

NextExtract == Extract

SpecExtract == InitExtract /\ [][NextExtract]_vars

(***************************************************************************)
(* A reader beside the first source's run: GET /api/regular-jobs served on  *)
(* its own session at any moment of the run.                               *)
(***************************************************************************)
\* api.py get_filtered_jobs without search or location: db.query(model_class).all(),
\* the committed rows of that model's table.
get_filtered_jobs(committed, model_class) == committed[model_class]

get_regular_jobs ==
    /\ seen' = [rows |-> get_filtered_jobs(tables, "Regular"), at |-> pc,
                source |-> source, page |-> page]
    /\ UNCHANGED <<runVars, pageVars, cardVars, salaryVars>>

RunFirstSource == source <= 1 /\ Next

NextReader == RunFirstSource \/ get_regular_jobs

SpecReader == Init /\ [][NextReader]_vars

(***************************************************************************)
(* clean_salary on its own: every text of up to MaxSalaryLen characters    *)
(* over SalaryChars, cleaned once and then once more.                      *)
(***************************************************************************)
SalaryChars == {"rupee", "?", "5", ",", " ", "I"}
SalaryTexts == SeqsUpTo(SalaryChars, MaxSalaryLen)

InitSalary ==
    /\ salary_raw \in SalaryTexts
    /\ cleaned = Uncleaned
    /\ recleaned = Uncleaned
    /\ IdleRunVars
    /\ IdlePageVars
    /\ IdleCardVars

CleanSalary ==
    /\ cleaned = Uncleaned
    /\ cleaned' = clean_salary(salary_raw)
    /\ UNCHANGED <<salary_raw, recleaned, runVars, seen, pageVars, cardVars>>

CleanSalaryAgain ==
    /\ cleaned # Uncleaned
    /\ recleaned = Uncleaned
    /\ recleaned' = clean_salary(cleaned)
    /\ UNCHANGED <<salary_raw, cleaned, runVars, seen, pageVars, cardVars>>

NextSalary == CleanSalary \/ CleanSalaryAgain

SpecSalary == InitSalary /\ [][NextSalary]_vars

(***************************************************************************)
(* Properties of page-count discovery (specification SpecPages).           *)
(***************************************************************************)
\* The anchors whose text, stripped, is a decimal numeral of a positive integer.
positive_texts(as) ==
    {k \in 1..Len(as) : int_ok(strip(as[k])) /\ int(strip(as[k])) > 0}

\* C8: for every list of anchor texts, last_page is computed, is the largest of
\* the texts that are positive integers, is 1 when there is none, and is never
\* 0 or negative.
C8_LastPageIsMaxPositive ==
    discovered # Undiscovered =>
        /\ discovered.ok
        /\ discovered.value >= 1
        /\ discovered.value =
              IF positive_texts(anchors) = {} THEN 1
              ELSE Max({int(strip(anchors[k])) : k \in positive_texts(anchors)})

(***************************************************************************)
(* Properties of extract_job_details (specification SpecExtract).          *)
(***************************************************************************)
Located(link) == link.present /\ link.has_attr

\* C9: for every card fragment, whichever optional fields it lacks,
\* extract_job_details does not raise and returns a record; a field that is
\* missing holds its default ("" for the texts and the apply URL, None for the
\* logo), and a field that is present holds its extracted value.
C9_MissingFieldsDefault ==
    details # Unextracted =>
        /\ details.kind = "record"
        /\ details.fields.job_title =
              IF card.title.present THEN clean_text(card.title.text) ELSE EmptyString
        /\ details.fields.company_location =
              IF card.company_location.present
              THEN clean_text(card.company_location.text) ELSE EmptyString
        /\ details.fields.salary =
              IF card.salary.present
              THEN clean_salary(clean_text(card.salary.text)) ELSE EmptyString
        /\ details.fields.posted =
              IF card.posted.present THEN clean_text(card.posted.text) ELSE EmptyString
        /\ Len(card.tags) < 1 => details.fields.eligible_years = EmptyString
        /\ Len(card.tags) < 2 => details.fields.job_type = EmptyString
        /\ card.skills = <<>> => details.fields.skills = EmptyString
        /\ details.fields.apply_url =
              IF Located(card.apply) THEN urljoin(url_map("Regular"), card.apply.attr)
              ELSE EmptyString
        /\ details.fields.company_logo =
              IF Located(card.img) THEN urljoin(url_map("Regular"), card.img.attr)
              ELSE None

\* C10: for a card fragment in which no field can be located,
\* extract_job_details returns None.
C10_UnrecognizableGivesNone ==
    (details # Unextracted /\ card = EmptyCard) => details.kind = "None"

\* C11: in every record extracted, eligible_years is the cleaned text of the
\* first tag element and job_type that of the second; with one tag job_type is
\* "", with none both are "", and tags after the second change nothing.
C11_PositionalTags ==
    details.kind = "record" =>
        /\ details.fields.eligible_years =
              IF Len(card.tags) >= 1 THEN unescape(strip(card.tags[1])) ELSE EmptyString
        /\ details.fields.job_type =
              IF Len(card.tags) >= 2 THEN unescape(strip(card.tags[2])) ELSE EmptyString
        /\ Len(card.tags) = 1 => details.fields.job_type = EmptyString
        /\ Len(card.tags) = 0 =>
              details.fields.eligible_years = EmptyString
              /\ details.fields.job_type = EmptyString

\* A card with three tags: the first two differ and land in their fields, the
\* third is dropped.
C11_Witness ==
    /\ details.kind = "record"
    /\ card.tags = <<<<"2">>, <<" ", "F">>, <<"2">>>>
    /\ details.fields.eligible_years = <<"2">>
    /\ details.fields.job_type = <<"F">>

(***************************************************************************)
(* Properties of clean_salary (specification SpecSalary).                  *)
(***************************************************************************)
\* The text with each rupee glyph and each "?" replaced by INR, nothing else changed.
substituted(t) ==
    [k \in 1..Len(t) |-> IF t[k] \in {"rupee", "?"} THEN INR ELSE <<t[k]>>]

RECURSIVE concat(_)
concat(parts) == IF parts = <<>> THEN <<>> ELSE Head(parts) \o concat(Tail(parts))

no_currency_marks(t) == \A k \in 1..Len(t) : t[k] \notin {"rupee", "?"}

\* C12 as stated: clean_salary replaces each rupee glyph and each "?" by INR and
\* leaves the other characters in order, the result holds neither character,
\* and cleaning twice equals cleaning once.
C12_SubstitutionOnly ==
    /\ cleaned # Uncleaned =>
          cleaned = concat(substituted(salary_raw)) /\ no_currency_marks(cleaned)
    /\ recleaned # Uncleaned => recleaned = cleaned

\* C12 (amended): clean_salary replaces each rupee glyph and each "?" by INR,
\* removes leading and trailing whitespace and leaves the other characters in
\* order; the result holds neither character, and cleaning twice equals
\* cleaning once.
C12_SubstitutionAndStrip ==
    /\ cleaned # Uncleaned =>
          /\ cleaned = strip(concat(substituted(salary_raw)))
          /\ no_currency_marks(cleaned)
    /\ recleaned # Uncleaned => recleaned = cleaned

\* " ?5" cleaned once and twice: INR5 both times, the leading blank gone.
C12_Witness ==
    /\ salary_raw = <<" ", "?", "5">>
    /\ cleaned = <<"I", "N", "R", "5">>
    /\ recleaned = cleaned

(***************************************************************************)
(* Properties of the run (specification Spec), continued.                  *)
(***************************************************************************)
\* C13: when a source run completes normally, the saved count it logs equals
\* the number of rows this run committed to the source's table, and the
\* number of loop iterations done equals last_page.
C13_ReportedCounts ==
    pc = "finish" =>
        /\ successful_jobs = Cardinality({r \in tables[current] : r.run = 1})
        /\ successful_jobs = Cardinality(extracted[current])
        /\ page - 1 = last_page

\* A two-page run ends with four rows committed and four reported.
C13_Witness ==
    /\ pc = "finish"
    /\ last_page = 2
    /\ page = 3
    /\ successful_jobs = 4
    /\ Cardinality(tables[current]) = 4

\* The steps of a source run that come before last_page is known.
BeforeDiscovered == {"delete", "commit_delete", "first", "discover"}

\* C14 as stated: Discover precedes Replace; until the first-page fetch has
\* succeeded and last_page is determined, the source's rows are not deleted
\* and no delete is pending or committed.
C14_DiscoverBeforeReplace ==
    pc \in BeforeDiscovered => ~db.deleted /\ tables[current] = prior[current]

\* The rows this run built from pages 1..j of source s.
WholePages(s, j) == {r \in extracted[s] : r.page <= j}

\* The steps of the page loop and the normal end of the run.
LoopSteps == {"fetch", "cards", "commit", "sleep", "finish"}

\* C15: at every moment, each source's committed table is either exactly what
\* it held before the run, or exactly the rows of whole pages 1..j of this run
\* for some 0 <= j <= last_page: never old rows with new ones, never part of
\* a page.
C15_CommittedStore ==
    \A s \in Sources :
        \/ tables[s] = prior[s]
        \/ \E j \in 0..MaxPages :
              /\ tables[s] = WholePages(s, j)
              /\ (source \in 1..Len(sources) /\ s = current /\ pc \in LoopSteps)
                    => j <= last_page

\* Page 2 is staged and not yet committed: the table holds page 1 of this run,
\* whole, and none of the rows it held before.
C15_Witness ==
    /\ pc = "commit"
    /\ page = 2
    /\ current = "Regular"
    /\ prior["Regular"] # {}
    /\ db.added # {}
    /\ tables["Regular"] # {}
    /\ tables["Regular"] = WholePages("Regular", 1)

(***************************************************************************)
(* Properties of a concurrent reader (specification SpecReader).           *)
(***************************************************************************)
\* The read was served before the run's delete was committed.
ReadBeforeDelete ==
    seen.source <= 1 /\ seen.at \in {"start", "source", "delete", "commit_delete"}

\* The read was served after the committed delete and before the commit of page 1.
ReadInWindow ==
    /\ seen.source = 1
    /\ \/ seen.at \in {"first", "discover"}
       \/ seen.at \in {"fetch", "cards", "commit"} /\ seen.page = 1

\* C16: the delete and the inserts of a run are separate commits, so a reader
\* of the source's table served between the committed delete and the commit
\* of page 1 is given an empty list, whatever the table held before the run
\* (which is what a reader served before the delete's commit is given).
C16_ReaderSeesEmptyWindow ==
    /\ ReadBeforeDelete => seen.rows = prior["Regular"]
    /\ ReadInWindow => seen.rows = {}

\* The table held a row before the run and holds rows after it, the run ended
\* normally, and the reader served during the first-page fetch got nothing.
C16_Witness ==
    /\ prior["Regular"] # {}
    /\ seen.source = 1
    /\ seen.at = "first"
    /\ seen.rows = {}
    /\ outcome["Regular"] = "ok"
    /\ tables["Regular"] # {}

(***************************************************************************)
(* Properties of the run (specification Spec): cards, failures, pacing.    *)
(***************************************************************************)
\* Where the rows of the page just processed are: staged, then committed.
PageRows == IF pc = "commit" THEN db.added ELSE tables[current]

\* C17: a card whose extraction gives None or raises is skipped: it adds no
\* row and is not counted, every other card of the page is added and
\* committed, the loop goes on to the commit and the next page, and the run
\* does not fail at the card.
C17_CardSkipped ==
    /\ pc \in {"commit", "sleep"} =>
          /\ \A k \in 1..Len(job_cards) :
                extract_job_details(job_cards[k], url_map(current)).kind = "record"
                   <=> Row(current, 1, page, k) \in PageRows
          /\ successful_jobs = Cardinality(extracted[current])
          /\ \A r \in extracted[current] :
                extract_job_details(FullPage[r.card], url_map(current)).kind = "record"
    /\ \A s \in Sources : failure[s].step \notin {"cards", "extract"}

\* Both pages of a run had a card whose link made urljoin raise: cards 1 and 3
\* of each page are committed, card 2 of neither, four rows are counted and
\* the run ends normally.
C17_Witness ==
    /\ pc = "finish"
    /\ current = "Regular"
    /\ last_page = 2
    /\ successful_jobs = 4
    /\ tables["Regular"] =
          {Row("Regular", 1, 1, 1), Row("Regular", 1, 1, 3),
           Row("Regular", 1, 2, 1), Row("Regular", 1, 2, 3)}
    /\ extract_job_details(job_cards[2], url_map("Regular")).kind = "raise"

PersistenceSteps == {"delete", "commit_delete", "commit"}

\* The run of source s has ended in scrape_and_save_jobs' except clause.
Aborted(s) ==
    \/ outcome[s] = "failed"
    \/ pc = "except" /\ source \in 1..Len(sources) /\ current = s

\* C18: when the delete, its commit or the commit of page k fails, nothing of
\* the open transaction is persisted (a failed delete leaves the old rows, a
\* failed commit of page k leaves pages 1..k-1 and none of page k), the run
\* ends as failed, the session is left with no open transaction, and the
\* remaining sources are still run.
C18_PersistenceFailure ==
    /\ \A s \in Sources :
          failure[s].step \in PersistenceSteps =>
             /\ Aborted(s)
             /\ failure[s].step \in {"delete", "commit_delete"} => tables[s] = prior[s]
             /\ failure[s].step = "commit" =>
                   /\ tables[s] = WholePages(s, failure[s].page - 1)
                   /\ \A r \in tables[s] : r.page # failure[s].page
    /\ pc \in {"source", "returned"} => db = NoTransaction
    /\ pc = "returned" => \A s \in Sources : outcome[s] # "none"

\* Regular failed at the commit of page 2 and keeps page 1 only, Freshers
\* failed at the delete and keeps its old row, Internships ran and succeeded.
C18_Witness ==
    /\ pc = "returned"
    /\ failure["Regular"] = [step |-> "commit", page |-> 2]
    /\ tables["Regular"] = {Row("Regular", 1, 1, 1), Row("Regular", 1, 1, 3)}
    /\ Row("Regular", 1, 2, 1) \in extracted["Regular"]
    /\ failure["Freshers"].step = "delete"
    /\ tables["Freshers"] = {Row("Freshers", 0, 1, 1)}
    /\ outcome["Internships"] = "ok"
    /\ db = NoTransaction

(***************************************************************************)
(* Properties of a direct call (specification SpecCall).                   *)
(***************************************************************************)
\* C19: scrape_and_save_jobs called with an identifier other than Regular,
\* Freshers or Internships raises at once: no fetch is made, nothing is
\* retried, no transaction is opened and the three tables stay as they were.
C19_InvalidSourceRejected ==
    (called.direct /\ called.source_type \notin Sources) =>
        /\ pc \in {"source", "ValueError"}
        /\ tries = 0
        /\ response = NoResponse
        /\ db = NoTransaction
        /\ tables = prior
        /\ attempted = <<>>

\* The call with "regular" has raised ValueError; the tables hold their old rows.
C19_Witness ==
    /\ called = [direct |-> TRUE, source_type |-> "regular"]
    /\ pc = "ValueError"
    /\ prior["Regular"] # {}
    /\ tables = prior
    /\ tries = 0

\* A make_request call for a page of the loop begins.
LoopFetchBegins == pc # "fetch" /\ pc' = "fetch"

\* The loop's fetch of a page ends without a response.
LoopFetchFails == pc = "fetch" /\ pc' \notin {"fetch", "cards"}

\* C20 as stated: the delay is applied after every page of the loop whether or
\* not its fetch succeeded, and a delay step lies between any two page
\* fetches of a source.
C20_DelayAfterEveryPage ==
    [][/\ LoopFetchFails => pc' = "sleep"
       /\ LoopFetchBegins => pc = "sleep"]_vars

\* C20 (amended): the delay is applied after every page whose commit
\* succeeded and only then; a fetch of a page after the first begins only
\* from the delay step; the loop's fetch of page 1 follows the discovery fetch
\* of page 1 with no delay, and a page whose fetch or commit fails ends the
\* run with no delay.
C20_DelayAfterCommittedPage ==
    [][/\ (pc = "commit" /\ pc' \notin {"commit", "except"}) => pc' = "sleep"
       /\ pc' = "sleep" => pc \in {"commit", "sleep"}
       /\ LoopFetchBegins =>
             \/ pc = "sleep" /\ page' > 1
             \/ pc = "discover" /\ page' = 1
       /\ LoopFetchFails => pc' = "except"
       /\ (pc = "commit" /\ pc' = "except") => failure'[current].step = "commit"]_vars

\* The delay after page 1 of a two-page listing: page 1 is committed, page 2
\* has not been requested.
C20_Witness ==
    /\ pc = "sleep"
    /\ page = 1
    /\ last_page = 2
    /\ tables[current] # {}
    /\ tries > 0

(***************************************************************************)
(* Termination and the GET budget (specification FairSpec).                *)
(***************************************************************************)
\* Control has left run_all_scrapers, or the direct call of scrape_and_save_jobs.
Ended == {"returned", "raised", "ValueError"}

\* Steps one page of the loop can take: its GET attempts, the cards, the
\* commit, the delay.
PageSteps == max_tries + 3

\* Steps left from the delay after page p to the end of the source run.
AfterPage(p) == (last_page - p) * PageSteps + 2

\* Steps left from the parsing of the first page, last_page not yet known.
FromDiscover == MaxPages * PageSteps + 2

\* Steps a whole source run can take.
RunSteps == max_tries + 3 + FromDiscover

\* An upper bound on the steps the current source run can still take.
RunStepsLeft ==
    CASE pc = "source" -> RunSteps
      [] pc = "delete" -> RunSteps - 1
      [] pc = "commit_delete" -> RunSteps - 2
      [] pc = "first" -> (max_tries - tries) + FromDiscover
      [] pc = "discover" -> FromDiscover
      [] pc = "fetch" -> (max_tries - tries) + 2 + AfterPage(page)
      [] pc = "cards" -> 2 + AfterPage(page)
      [] pc = "commit" -> 1 + AfterPage(page)
      [] pc = "sleep" -> AfterPage(page)
      [] pc \in {"finish", "except"} -> 1

\* An upper bound on the steps left before control leaves the call.
StepsLeft ==
    IF pc \in Ended THEN 0
    ELSE IF pc = "start" THEN 1 + Len(sources) * RunSteps
    ELSE RunStepsLeft + (Len(sources) - source) * RunSteps

\* C21: run_all_scrapers returns after finitely many steps whatever the
\* fetches and the persistence calls do (every step lowers a bound on the
\* steps left, and a step can be taken until control has left the call), and
\* a source run issues at most 3 * (last_page + 1) GET attempts, at most 3 of
\* them before last_page is known.
C21_TerminatesWithinBudget ==
    /\ [][StepsLeft' < StepsLeft]_vars
    /\ [](StepsLeft >= 0)
    /\ [](pc \notin Ended => ENABLED NextAnyCall)
    /\ [](gets <= max_tries * (last_page + 1))
    /\ [](pc \in {"first", "discover"} => gets <= max_tries)

\* A direct call of a two-page source used its whole budget: three attempts
\* for discovery, three for page 1, three for page 2, the last one answered.
C21_Witness ==
    /\ called.direct
    /\ pc = "cards"
    /\ last_page = 2
    /\ page = 2
    /\ gets = 9

(***************************************************************************)
(* Properties of the /api/scrape trigger (specification SpecTrigger).      *)
(***************************************************************************)
\* C22 as stated: the per-source delete of run_all_scrapers never waits for
\* locks held by the request session's uncommitted deletes, and the request's
\* transaction stays open until run_all_scrapers returns.
C22_ScraperDeleteNotBlocked ==
    /\ pc # "lock_wait"
    /\ \A s \in Sources : failure[s].step = "delete" => s \notin request.locked
    /\ pc \notin {"trigger", "200", "500"} => request.open

====
